---- MODULE Spec2Model ----
(***************************************************************************)
(* RDP (RFC 908) connection state machine and packet codec of              *)
(* RDP_RFC-908/src: rdp_protocol.py (RDPPacket) and rdp_connection.py      *)
(* (RDPConnection).                                                        *)
(*                                                                         *)
(* An RDPPacket object is a record; the bytes struct.pack produces are a   *)
(* record of the packed header fields plus the payload (the layout         *)
(* "!HHHIIII" is fixed width, 22 bytes, so the fields determine the bytes  *)
(* and back).  A bytes value is a sequence of integers 0..255.  Every      *)
(* method of RDPConnection is an operator from the object (a record of its *)
(* attributes) and the arguments to a result [self, out, ret, data]: the   *)
(* object afterwards, the datagrams handed to socket.sendto, the value     *)
(* returned (or the name of the exception raised) and the bytes returned.  *)
(***************************************************************************)
EXTENDS Integers, Sequences, FiniteSets, TLC

\* ---------------------------------------------------------------- bounds
MaxISS == 1        \* generate_initial_sequence_number() drawn from 0..MaxISS
MaxSndMax == 3     \* snd_max argument of open drawn from 1..MaxSndMax (or None)
MaxData == 2       \* payload length of send / inbound packets, 0..MaxData
MaxBuf == 2        \* data_buffer never grown beyond MaxBuf bytes
MaxChan == 2       \* datagrams in flight towards one endpoint

\* ------------------------------------------------------ program constants
None == -1                 \* Python None in an integer-valued attribute
DefaultSndMax == 10
DefaultRmaxBuf == 1024
AllocatedPort == 10000
HeaderLength == 9
Version == 1

Conns == {"A", "B"}
Peer(c) == IF c = "A" THEN "B" ELSE "A"
PortOf(c) == IF c = "A" THEN 1 ELSE 2

Bytes == {1, 2}
RECURSIVE SeqsUpTo(_, _)
SeqsUpTo(S, n) ==
    IF n = 0 THEN {<<>>}
    ELSE LET shorter == SeqsUpTo(S, n - 1)
         IN  shorter \cup {Append(s, b) : s \in {t \in shorter : Len(t) = n - 1}, b \in S}
\* payloads told apart by their bytes (for the order of delivery), and
\* payloads told apart by their length only
Payloads == SeqsUpTo(Bytes, MaxData)
Lengths == SeqsUpTo({1}, MaxData)

\* ------------------------------------------------------------ bit helpers
Bit(n, k) == (n \div (2 ^ k)) % 2
ShiftLeft(n, k) == n * (2 ^ k)
ShiftRight(n, k) == n \div (2 ^ k)
\* a | b on non-negative integers below 2^17
BitOr(a, b) ==
    LET f[k \in 0..17] ==
            IF k = 17 THEN 0
            ELSE (IF Bit(a, k) = 1 \/ Bit(b, k) = 1 THEN 2 ^ k ELSE 0) + f[k + 1]
    IN  f[0]
\* a & 0xFF, a & 0xffff
Low8(a) == a % 256
Low16(a) == a % 65536

\* ------------------------------------------------------------- RDPPacket
RDPPacket(source_port, dest_port, seq_num, ack_num, data, syn, ack, eack, rst, nul) ==
    [source_port |-> source_port, dest_port |-> dest_port,
     seq_num |-> seq_num, ack_num |-> ack_num, data |-> data,
     syn |-> syn, ack |-> ack, eack |-> eack, rst |-> rst, nul |-> nul]

\* int.from_bytes(data[i:i+2], 'big') summed for i = 0, 2, 4, ...: a last
\* single byte counts as its own value
RECURSIVE SumDataWords(_)
SumDataWords(data) ==
    IF Len(data) = 0 THEN 0
    ELSE IF Len(data) = 1 THEN data[1]
    ELSE data[1] * 256 + data[2] + SumDataWords(SubSeq(data, 3, Len(data)))

compute_checksum(p) ==
    LET header == p.source_port + p.dest_port + Len(p.data)
                  + ShiftRight(p.seq_num, 16) + Low16(p.seq_num)
                  + ShiftRight(p.ack_num, 16) + Low16(p.ack_num)
        sum == header + SumDataWords(p.data)
        fold1 == ShiftRight(sum, 16) + Low16(sum)
        fold2 == ShiftRight(fold1, 16) + fold1
    IN  65535 - Low16(fold2)

ControlWord(p) ==
    LET flags == BitOr(BitOr(BitOr(BitOr(ShiftLeft(p.syn, 3), ShiftLeft(p.ack, 2)),
                                   ShiftLeft(p.eack, 1)), p.rst), ShiftLeft(p.nul, 4))
    IN  BitOr(BitOr(ShiftLeft(Version, 12), ShiftLeft(flags, 8)), HeaderLength)

encode(p) ==
    [control_and_version |-> ControlWord(p),
     source_port |-> p.source_port, dest_port |-> p.dest_port,
     data_length |-> Len(p.data),
     seq_num |-> p.seq_num, ack_num |-> p.ack_num,
     checksum |-> compute_checksum(p),
     data |-> p.data]

decode(packet_bytes) ==
    LET flags == Low8(packet_bytes.control_and_version)
    IN  RDPPacket(packet_bytes.source_port, packet_bytes.dest_port,
                  packet_bytes.seq_num, packet_bytes.ack_num, packet_bytes.data,
                  Bit(flags, 3), Bit(flags, 2), Bit(flags, 1), Bit(flags, 0), Bit(flags, 4))

\* --------------------------------------------------------- RDPConnection
\* RDPConnection.__init__: the attributes right after construction.  SND_MAX,
\* RMAX_BUF and local_port are not set by __init__ (None here stands for the
\* attribute being absent: reading it raises AttributeError).
NewConnection(remote_address, source_port, dest_port) ==
    [remote_address |-> remote_address, state |-> "CLOSED",
     SND_ISS |-> 0, SND_NXT |-> 0, SND_UNA |-> 0,
     RCV_CUR |-> 0, RCV_MAX |-> 0,
     SND_MAX |-> None, RMAX_BUF |-> None, local_port |-> None,
     data_buffer |-> <<>>,
     source_port |-> source_port, dest_port |-> dest_port]

\* what a method call leaves behind: the object, the datagrams given to
\* socket.sendto, the returned value (or raised exception) and returned bytes
Result(self, out, ret) == [self |-> self, out |-> out, ret |-> ret, data |-> <<>>]

\* the flag arguments of RDPPacket(...) default to False
NoFlags == [syn |-> 0, ack |-> 0, eack |-> 0, rst |-> 0, nul |-> 0]
Packet(source_port, dest_port, seq_num, ack_num, data, f) ==
    RDPPacket(source_port, dest_port, seq_num, ack_num, data, f.syn, f.ack, f.eack, f.rst, f.nul)

\* one datagram handed to socket.sendto(encoded_packet, self.remote_address);
\* packet is the object that was encoded
send_packet(self, packet) ==
    <<[bytes |-> encode(packet), addr |-> self.remote_address, packet |-> packet]>>

allocate_local_port(self) == [self EXCEPT !.source_port = AllocatedPort]

open_mut_nxt(self, iss, passive, local_port, remote_port, snd_max, rmax_buf) ==
    IF self.state # "CLOSED" THEN Result(self, <<>>, "Error - connection already open")
    ELSE
    LET s1 == [self EXCEPT !.SND_ISS = iss, !.SND_NXT = iss, !.SND_UNA = iss + 1,
                           !.SND_MAX = IF snd_max # None THEN snd_max ELSE DefaultSndMax,
                           !.RMAX_BUF = IF rmax_buf # None THEN rmax_buf ELSE DefaultRmaxBuf]
    IN  IF passive
        THEN IF local_port = None
             THEN Result(s1, <<>>, "Error - local port not specified")
             ELSE Result([s1 EXCEPT !.state = "LISTEN"], <<>>, "Connection opened in state LISTEN")
        ELSE IF remote_port = None
             THEN Result(s1, <<>>, "Error - remote port not specified")
             ELSE LET s2 == IF local_port = None THEN allocate_local_port(s1) ELSE s1
                      s3 == [s2 EXCEPT !.state = "SYN-SENT"]
                  IN  Result(s3, send_packet(s3, Packet(s3.source_port, remote_port, s3.SND_ISS, 0,
                                                        <<>>, [NoFlags EXCEPT !.syn = 1])),
                             "Connection opened in state SYN-SENT")

\* iss is the value generate_initial_sequence_number() returns in this call
open(self, iss, passive, local_port, remote_port, snd_max, rmax_buf) ==
    IF self.state # "CLOSED" THEN Result(self, <<>>, "Error - connection already open")
    ELSE
    LET s1 == [self EXCEPT !.SND_ISS = iss, !.SND_NXT = iss + 1, !.SND_UNA = iss,
                           !.SND_MAX = IF snd_max # None THEN snd_max ELSE DefaultSndMax,
                           !.RMAX_BUF = IF rmax_buf # None THEN rmax_buf ELSE DefaultRmaxBuf]
    IN  IF passive
        THEN IF local_port = None
             THEN Result(s1, <<>>, "Error - local port not specified")
             ELSE Result([s1 EXCEPT !.state = "LISTEN"], <<>>, "Connection opened in state LISTEN")
        ELSE IF remote_port = None
             THEN Result(s1, <<>>, "Error - remote port not specified")
             ELSE LET s2 == IF local_port = None THEN allocate_local_port(s1) ELSE s1
                      s3 == [s2 EXCEPT !.state = "SYN-SENT"]
                  IN  Result(s3, send_packet(s3, Packet(s3.source_port, remote_port, s3.SND_ISS, 0,
                                                        <<>>, [NoFlags EXCEPT !.syn = 1])),
                             "Connection opened in state SYN-SENT")

send_rst(self) ==
    send_packet(self, Packet(self.source_port, self.dest_port, self.SND_NXT, self.RCV_CUR,
                             <<>>, [NoFlags EXCEPT !.rst = 1]))

close_mut_silent(self) ==
    IF self.state \in {"LISTEN", "SYN-RCVD", "SYN-SENT"}
    THEN Result([self EXCEPT !.state = "CLOSED"], <<>>,
                "Connection closed from state: LISTEN/SYN-RCVD/SYN-SENT")
    ELSE IF self.state = "OPEN"
    THEN Result([self EXCEPT !.state = "CLOSE-WAIT"], send_rst(self),
                "Connection set to CLOSE-WAIT from state: OPEN")
    ELSE Result(self, <<>>, "Error - connection not open or already closing")

close(self) ==
    IF self.state \in {"LISTEN", "SYN-RCVD", "SYN-SENT"}
    THEN Result([self EXCEPT !.state = "CLOSED"], send_rst(self),
                "Connection closed from state: LISTEN/SYN-RCVD/SYN-SENT")
    ELSE IF self.state = "OPEN"
    THEN Result([self EXCEPT !.state = "CLOSE-WAIT"], send_rst(self),
                "Connection set to CLOSE-WAIT from state: OPEN")
    ELSE Result(self, <<>>, "Error - connection not open or already closing")

prepare_data_packet_mut_ack(self, data) ==
    Packet(self.source_port, self.dest_port, self.SND_NXT, self.RCV_CUR, data,
           [NoFlags EXCEPT !.ack = 1])

prepare_data_packet(self, data) ==
    Packet(self.source_port, self.dest_port, self.SND_NXT, self.RCV_CUR, data, NoFlags)

send_mut_twice(self, data) ==
    IF self.state # "OPEN" THEN Result(self, <<>>, "Error - connection not open")
    ELSE IF self.SND_MAX = None THEN Result(self, <<>>, "AttributeError")
    ELSE IF Len(data) > self.SND_MAX
    THEN Result(self, <<>>, "Error - data size exceeds maximum segment size")
    ELSE IF self.SND_NXT >= self.SND_UNA + self.SND_MAX
    THEN Result(self, <<>>, "Error - send window is full, cannot send more data")
    ELSE Result([self EXCEPT !.SND_NXT = self.SND_NXT + Len(data)],
                send_packet(self, prepare_data_packet(self, data))
                    \o send_packet(self, prepare_data_packet(self, data)), "None")

\* self.SND_MAX exists only once open() has run (line 52): reading it on a
\* connection that reached OPEN without open() raises AttributeError
send(self, data) ==
    IF self.state # "OPEN" THEN Result(self, <<>>, "Error - connection not open")
    ELSE IF self.SND_MAX = None THEN Result(self, <<>>, "AttributeError")
    ELSE IF Len(data) > self.SND_MAX
    THEN Result(self, <<>>, "Error - data size exceeds maximum segment size")
    ELSE IF self.SND_NXT >= self.SND_UNA + self.SND_MAX
    THEN Result(self, <<>>, "Error - send window is full, cannot send more data")
    ELSE Result([self EXCEPT !.SND_NXT = self.SND_NXT + Len(data)],
                send_packet(self, prepare_data_packet(self, data)), "None")

send_ack(self, remote_port) ==
    send_packet(self, Packet(self.source_port, remote_port, self.SND_NXT, self.RCV_CUR,
                             <<>>, [NoFlags EXCEPT !.ack = 1]))

send_syn_ack(self, remote_port) ==
    send_packet(self, Packet(self.source_port, remote_port, self.SND_ISS, self.RCV_CUR,
                             <<>>, [NoFlags EXCEPT !.syn = 1, !.ack = 1]))

\* a datagram as socket.recvfrom returns it: (packet_bytes, addr).  The result
\* is <<>> for None and <<packet>> for a decoded packet.
receive_packet(self, dgram) ==
    IF dgram.addr # self.remote_address THEN <<>> ELSE <<decode(dgram.bytes)>>

reset_connection(self) ==
    [self EXCEPT !.state = "CLOSED", !.SND_ISS = 0, !.SND_NXT = 0, !.SND_UNA = 0,
                 !.RCV_CUR = 0, !.RCV_MAX = 0, !.data_buffer = <<>>]

handle_syn_packet(self, packet) ==
    IF self.state = "LISTEN" /\ packet.syn = 1
    THEN LET s1 == [self EXCEPT !.RCV_CUR = packet.seq_num]
         IN  Result([s1 EXCEPT !.state = "SYN-RCVD"], send_syn_ack(s1, packet.source_port), "None")
    ELSE Result(self, <<>>, "None")

handle_syn_ack_packet(self, packet) ==
    IF self.state = "SYN-SENT" /\ packet.syn = 1 /\ packet.ack = 1
    THEN LET s1 == [self EXCEPT !.RCV_CUR = packet.seq_num]
         IN  Result([s1 EXCEPT !.state = "OPEN"], send_ack(s1, packet.source_port), "None")
    ELSE Result(self, <<>>, "None")

handle_ack_packet_mut_advance(self, packet) ==
    IF self.state = "SYN-RCVD" /\ packet.ack = 1
    THEN Result([self EXCEPT !.state = "OPEN"], <<>>, "None")
    ELSE IF self.state = "OPEN" /\ packet.ack = 1
    THEN Result([self EXCEPT !.SND_UNA = self.SND_NXT], <<>>, "None")
    ELSE Result(self, <<>>, "None")

handle_ack_packet(self, packet) ==
    IF self.state = "SYN-RCVD" /\ packet.ack = 1
    THEN Result([self EXCEPT !.state = "OPEN"], <<>>, "None")
    ELSE Result(self, <<>>, "None")

handle_data_packet_mut_prepend(self, packet) ==
    IF self.state = "OPEN" /\ packet.data # <<>>
    THEN LET s1 == [self EXCEPT !.data_buffer = packet.data \o self.data_buffer]
         IN  Result(s1, send_ack(s1, packet.source_port), "None")
    ELSE Result(self, <<>>, "None")

handle_data_packet(self, packet) ==
    IF self.state = "OPEN" /\ packet.data # <<>>
    THEN LET s1 == [self EXCEPT !.data_buffer = self.data_buffer \o packet.data]
         IN  Result(s1, send_ack(s1, packet.source_port), "None")
    ELSE Result(self, <<>>, "None")

handle_rst_packet(self, packet) ==
    IF self.state = "OPEN" /\ packet.rst = 1
    THEN Result(reset_connection([self EXCEPT !.state = "CLOSED"]), <<>>, "None")
    ELSE Result(self, <<>>, "None")

\* the outcome of an expression: a value, or an exception raised
Returned(v) == [raised |-> FALSE, value |-> v]
Raised(exc) == [raised |-> TRUE, exc |-> exc]

InstanceDecode_mut_identity(packet) == Returned(packet)

\* line 222, packet.decode(): decode is a @staticmethod with one parameter
\* (rdp_protocol.py:85-86), so the call on an RDPPacket instance passes no
\* argument and raises TypeError before process_packet looks at its state
InstanceDecode(packet) == Raised("TypeError")

\* lines 224-250, the dispatch on self.state
Dispatch(self, decoded_packet) ==
    IF self.state = "LISTEN"
    THEN IF decoded_packet.syn = 1 /\ decoded_packet.ack # 1
         THEN handle_syn_packet(self, decoded_packet) ELSE Result(self, <<>>, "None")
    ELSE IF self.state = "SYN-SENT"
    THEN IF decoded_packet.syn = 1 /\ decoded_packet.ack = 1
         THEN handle_syn_ack_packet(self, decoded_packet) ELSE Result(self, <<>>, "None")
    ELSE IF self.state = "SYN-RCVD"
    THEN IF decoded_packet.ack = 1
         THEN handle_ack_packet(self, decoded_packet) ELSE Result(self, <<>>, "None")
    ELSE IF self.state = "OPEN"
    THEN IF decoded_packet.data # <<>>
         THEN handle_data_packet(self, decoded_packet)
         ELSE IF decoded_packet.rst = 1
         THEN handle_rst_packet(self, decoded_packet) ELSE Result(self, <<>>, "None")
    ELSE Result(self, <<>>, "None")

process_packet_mut_any_state(self, packet) ==
    IF packet.data # <<>>
    THEN Result([self EXCEPT !.data_buffer = self.data_buffer \o packet.data],
                send_ack(self, packet.source_port), "RDPPacket")
    ELSE Result(self, <<>>, "TypeError")

process_packet(self, packet) ==
    LET decoded_packet == InstanceDecode(packet)
    IN  IF decoded_packet.raised THEN Result(self, <<>>, decoded_packet.exc)
        ELSE LET r == Dispatch(self, decoded_packet.value)
             IN  Result(r.self, r.out, "RDPPacket")

\* dgram is what socket.recvfrom returns in this call
receive(self, dgram) ==
    IF self.state # "OPEN" THEN Result(self, <<>>, "Error - connection not open")
    ELSE
    LET incoming_packet == receive_packet(self, dgram)
    IN  IF incoming_packet = <<>> THEN Result(self, <<>>, "No data to receive")
        ELSE LET r == process_packet(self, incoming_packet[1])
             IN  IF r.ret # "RDPPacket" THEN r
                 ELSE IF r.self.data_buffer # <<>>
                 THEN [self |-> [r.self EXCEPT !.data_buffer = <<>>], out |-> r.out,
                       ret |-> "data", data |-> r.self.data_buffer]
                 ELSE Result(r.self, r.out, "No new data received")

\* bind_ok: whether socket.bind succeeds in this call
listen(self, local_port, bind_ok) ==
    IF bind_ok
    THEN Result([self EXCEPT !.local_port = local_port, !.state = "LISTEN"], <<>>, "Listening on port")
    ELSE Result(self, <<>>, "Error binding to port")

\* ------------------------------------------------------------------ state
VARIABLES
    conn,       \* conn[c]: the attributes of RDPConnection object c
    emitted,    \* the datagrams the last call handed to socket.sendto
    ret,        \* the last call: [op, val, data] (method, returned value, returned bytes)
    chan,       \* chan[c]: datagrams in flight towards c's socket, oldest first
    accepted,   \* accepted[c]: payloads of c's successful send() calls, concatenated
    delivered,  \* delivered[c]: bytes returned by c's receive() calls, concatenated
    pkt,        \* codec: the RDPPacket being encoded
    wire,       \* codec: <<encode(pkt)>> once encoded
    decoded     \* codec: <<decode(wire)>> once decoded

vars == <<conn, emitted, ret, chan, accepted, delivered, pkt, wire, decoded>>
codecVars == <<pkt, wire, decoded>>
netVars == <<chan, accepted, delivered>>

SmallRmaxBuf == 1      \* the rmax_buf argument of open, when given
FlagSets == [syn : {0, 1}, ack : {0, 1}, eack : {0, 1}, rst : {0, 1}, nul : {0, 1}]

\* packets a caller or the peer can present to connection A: every flag
\* combination, with and without a payload
InPackets ==
    {Packet(PortOf("B"), PortOf("A"), 1, 0, data, f) : data \in {<<>>, <<1>>}, f \in FlagSets}

\* the packets handed to a handle_* method directly (no handler reads eack or nul)
HandlerPackets == {p \in InPackets : p.eack = 0 /\ p.nul = 0}

\* what socket.recvfrom can return at A: bytes from the peer or from a stranger
InDatagrams ==
    {[bytes |-> encode(p), addr |-> a] : p \in HandlerPackets, a \in {"B", "X"}}

\* the snd_max and rmax_buf arguments of open: both left out, or both given
OpenArgs ==
    {[snd_max |-> None, rmax_buf |-> None]}
    \cup {[snd_max |-> k, rmax_buf |-> SmallRmaxBuf] : k \in 1..MaxSndMax}

\* both objects constructed with the peer's address and both port numbers
Init ==
    /\ conn = [c \in Conns |-> NewConnection(Peer(c), PortOf(c), PortOf(Peer(c)))]
    /\ emitted = <<>>
    /\ ret = [op |-> "__init__", val |-> "None", data |-> <<>>]
    /\ chan = [c \in Conns |-> <<>>]
    /\ accepted = [c \in Conns |-> <<>>]
    /\ delivered = [c \in Conns |-> <<>>]
    /\ pkt = Packet(0, 0, 0, 0, <<>>, NoFlags)
    /\ wire = <<>>
    /\ decoded = <<>>

\* a call of method op on c with outcome r, the socket's datagrams not tracked
Call(c, op, r) ==
    /\ conn' = [conn EXCEPT ![c] = r.self]
    /\ emitted' = r.out
    /\ ret' = [op |-> op, val |-> r.ret, data |-> r.data]
    /\ UNCHANGED <<netVars, codecVars>>

OpenOf(c, iss, passive, local_port, remote_port, a) ==
    Call(c, "open", open(conn[c], iss, passive, local_port, remote_port, a.snd_max, a.rmax_buf))
Open(c) ==
    \E iss \in 0..MaxISS, passive \in BOOLEAN, local_port \in {None, PortOf(c)},
       remote_port \in {None, PortOf(Peer(c))}, a \in OpenArgs :
        OpenOf(c, iss, passive, local_port, remote_port, a)

ListenOf(c, bind_ok) == Call(c, "listen", listen(conn[c], PortOf(c), bind_ok))
Listen(c) == \E bind_ok \in BOOLEAN : ListenOf(c, bind_ok)

Close(c) == Call(c, "close", close(conn[c]))

SendOf(c, data) == Call(c, "send", send(conn[c], data))
Send(c) == \E data \in Lengths : SendOf(c, data)

\* datagrams from the peer damaged in transit: the checksum field no longer
\* matches the fields and payload, or the data_length field no longer matches
\* the number of payload bytes
CorruptDatagrams ==
    LET sent == {p \in HandlerPackets : p.syn = 0 /\ p.ack = 0}
    IN  {[bytes |-> [encode(p) EXCEPT !.checksum = (@ + 1) % 65536], addr |-> "B"] : p \in sent}
        \cup {[bytes |-> [encode(p) EXCEPT !.data_length = @ + 1], addr |-> "B"] : p \in sent}

ReceiveOf(c, dgram) == Call(c, "receive", receive(conn[c], dgram))
Receive(c) == \E dgram \in InDatagrams \cup CorruptDatagrams : ReceiveOf(c, dgram)

ProcessPacketOf(c, packet) == Call(c, "process_packet", process_packet(conn[c], packet))
ProcessPacket(c) == \E packet \in InPackets : ProcessPacketOf(c, packet)

HandleSyn(c) ==
    \E packet \in HandlerPackets : Call(c, "handle_syn_packet", handle_syn_packet(conn[c], packet))

HandleSynAck(c) ==
    \E packet \in HandlerPackets :
        Call(c, "handle_syn_ack_packet", handle_syn_ack_packet(conn[c], packet))

HandleAck(c) ==
    \E packet \in HandlerPackets : Call(c, "handle_ack_packet", handle_ack_packet(conn[c], packet))

HandleDataOf(c, packet) ==
    /\ Len(conn[c].data_buffer) + Len(packet.data) <= MaxBuf
    /\ Call(c, "handle_data_packet", handle_data_packet(conn[c], packet))
HandleData(c) == \E packet \in HandlerPackets : HandleDataOf(c, packet)

HandleRst(c) ==
    \E packet \in HandlerPackets : Call(c, "handle_rst_packet", handle_rst_packet(conn[c], packet))

ResetConnection(c) ==
    Call(c, "reset_connection", Result(reset_connection(conn[c]), <<>>, "None"))

\* one RDPConnection driven by its caller
Next ==
    \/ Open("A")
    \/ Listen("A")
    \/ Close("A")
    \/ Send("A")
    \/ Receive("A")
    \/ ProcessPacket("A")
    \/ HandleSyn("A")
    \/ HandleSynAck("A")
    \/ HandleAck("A")
    \/ HandleData("A")
    \/ HandleRst("A")
    \/ ResetConnection("A")

Spec == Init /\ [][Next]_vars

\* ------------------------------------------------------------ the codec
\* packets at the edges of the field widths, with every flag combination
CodecPackets ==
    {Packet(sp, 2, seq, ack, data, f) :
        sp \in {1, 65535}, seq \in {0, 2147483647}, ack \in {0, 65536},
        data \in SeqsUpTo({0, 255}, MaxData), f \in FlagSets}

CodecInit ==
    /\ conn = [c \in Conns |-> NewConnection(Peer(c), PortOf(c), PortOf(Peer(c)))]
    /\ emitted = <<>>
    /\ ret = [op |-> "__init__", val |-> "None", data |-> <<>>]
    /\ chan = [c \in Conns |-> <<>>]
    /\ accepted = [c \in Conns |-> <<>>]
    /\ delivered = [c \in Conns |-> <<>>]
    /\ pkt \in CodecPackets
    /\ wire = <<>>
    /\ decoded = <<>>

Encode ==
    /\ wire = <<>>
    /\ wire' = <<encode(pkt)>>
    /\ UNCHANGED <<conn, emitted, ret, netVars, pkt, decoded>>

Decode ==
    /\ wire # <<>>
    /\ decoded = <<>>
    /\ decoded' = <<decode(wire[1])>>
    /\ UNCHANGED <<conn, emitted, ret, netVars, pkt, wire>>

CodecNext ==
    \/ Encode
    \/ Decode

SpecCodec == CodecInit /\ [][CodecNext]_vars

\* ------------------------------------------------- two endpoints, a channel
\* the datagrams of out, as the socket of the addressed endpoint receives
\* them from sender c
Arriving(out, c, to) ==
    SelectSeq([i \in 1..Len(out) |-> [bytes |-> out[i].bytes, addr |-> c, to |-> out[i].addr]],
              LAMBDA d : d.to = to)
Inbox(out, c, to) ==
    LET a == Arriving(out, c, to)
    IN  [i \in 1..Len(a) |-> [bytes |-> a[i].bytes, addr |-> a[i].addr]]

\* a call on c with outcome r; consumed: whether the call took the oldest
\* datagram from c's socket; the datagrams sent reach the peer's socket
NetCall(c, op, r, consumed) ==
    /\ conn' = [conn EXCEPT ![c] = r.self]
    /\ emitted' = r.out
    /\ ret' = [op |-> op, val |-> r.ret, data |-> r.data]
    /\ chan' = [d \in Conns |->
                 IF d = c THEN (IF consumed THEN Tail(chan[c]) ELSE chan[c])
                 ELSE chan[d] \o Inbox(r.out, c, d)]
    /\ Len(chan'[Peer(c)]) <= MaxChan
    /\ UNCHANGED codecVars

\* the caller's polling step: packet = receive_packet(); if packet: process_packet(packet)
poll(self, dgram) ==
    LET packet == receive_packet(self, dgram)
    IN  IF packet = <<>> THEN Result(self, <<>>, "None")
        ELSE process_packet(self, packet[1])

\* B is put in LISTEN, by a passive open or by listen()
HsListen ==
    /\ conn["B"].state = "CLOSED"
    /\ \/ \E iss \in 0..MaxISS, a \in OpenArgs :
            NetCall("B", "open", open(conn["B"], iss, TRUE, PortOf("B"), None,
                                      a.snd_max, a.rmax_buf), FALSE)
       \/ \E bind_ok \in BOOLEAN :
            NetCall("B", "listen", listen(conn["B"], PortOf("B"), bind_ok), FALSE)
    /\ UNCHANGED <<accepted, delivered>>

\* with B in LISTEN, A opens actively towards B
HsOpen ==
    /\ conn["B"].state = "LISTEN"
    /\ conn["A"].state = "CLOSED"
    /\ \E iss \in 0..MaxISS, local_port \in {None, PortOf("A")}, a \in OpenArgs :
            NetCall("A", "open", open(conn["A"], iss, FALSE, local_port, PortOf("B"),
                                      a.snd_max, a.rmax_buf), FALSE)
    /\ UNCHANGED <<accepted, delivered>>

\* the oldest datagram in flight reaches its endpoint, which polls it
HsDeliver ==
    \E c \in Conns :
        /\ chan[c] # <<>>
        /\ NetCall(c, "process_packet", poll(conn[c], Head(chan[c])), TRUE)
        /\ UNCHANGED <<accepted, delivered>>

HsNext ==
    \/ HsListen
    \/ HsOpen
    \/ HsDeliver

\* the handshake scenario over a channel that delivers once and in order
SpecHandshake == Init /\ [][HsNext]_vars

\* both ends in OPEN: A opened actively, B passively, and each packet one end
\* emitted was handed as an object to the matching handler of the other end
Established(issA, issB, snd_max) ==
    LET a1 == open(NewConnection("B", PortOf("A"), PortOf("B")), issA, FALSE, PortOf("A"),
                   PortOf("B"), snd_max, None)
        b1 == open(NewConnection("A", PortOf("B"), PortOf("A")), issB, TRUE, PortOf("B"),
                   None, snd_max, None)
        b2 == handle_syn_packet(b1.self, a1.out[1].packet)
        a2 == handle_syn_ack_packet(a1.self, b2.out[1].packet)
        b3 == handle_ack_packet(b2.self, a2.out[1].packet)
    IN  [c \in Conns |-> IF c = "A" THEN a2.self ELSE b3.self]

NetInit ==
    /\ \E issA \in 0..MaxISS, issB \in 0..MaxISS, snd_max \in 1..MaxSndMax :
            conn = Established(issA, issB, snd_max)
    /\ emitted = <<>>
    /\ ret = [op |-> "handle_ack_packet", val |-> "None", data |-> <<>>]
    /\ chan = [c \in Conns |-> <<>>]
    /\ accepted = [c \in Conns |-> <<>>]
    /\ delivered = [c \in Conns |-> <<>>]
    /\ pkt = Packet(0, 0, 0, 0, <<>>, NoFlags)
    /\ wire = <<>>
    /\ decoded = <<>>

\* A sends
NetSend ==
    \E data \in Payloads :
        LET r == send(conn["A"], data)
        IN  /\ NetCall("A", "send", r, FALSE)
            /\ accepted' = [accepted EXCEPT !["A"] = IF r.ret = "None" THEN @ \o data ELSE @]
            /\ UNCHANGED delivered

\* an end calls receive(); socket.recvfrom hands it the oldest datagram
NetReceive ==
    \E c \in Conns :
        /\ chan[c] # <<>>
        /\ LET r == receive(conn[c], Head(chan[c]))
           IN  /\ NetCall(c, "receive", r, conn[c].state = "OPEN")
               /\ delivered' = [delivered EXCEPT ![c] = @ \o r.data]
               /\ UNCHANGED accepted

Without(q, i) == SubSeq(q, 1, i - 1) \o SubSeq(q, i + 1, Len(q))

\* the medium loses a datagram
NetDrop ==
    \E c \in Conns, i \in 1..MaxChan :
        /\ i <= Len(chan[c])
        /\ chan' = [chan EXCEPT ![c] = Without(chan[c], i)]
        /\ UNCHANGED <<conn, emitted, ret, accepted, delivered, codecVars>>

\* the medium duplicates a datagram
NetDuplicate ==
    \E c \in Conns, i \in 1..MaxChan :
        /\ i <= Len(chan[c])
        /\ Len(chan[c]) < MaxChan
        /\ chan' = [chan EXCEPT ![c] = Append(chan[c], chan[c][i])]
        /\ UNCHANGED <<conn, emitted, ret, accepted, delivered, codecVars>>

\* the medium swaps two neighbouring datagrams
NetReorder ==
    \E c \in Conns, i \in 1..MaxChan :
        /\ i < Len(chan[c])
        /\ chan[c][i] # chan[c][i + 1]
        /\ chan' = [chan EXCEPT ![c] = [chan[c] EXCEPT ![i] = chan[c][i + 1],
                                                       ![i + 1] = chan[c][i]]]
        /\ UNCHANGED <<conn, emitted, ret, accepted, delivered, codecVars>>

NetNext ==
    \/ NetSend
    \/ NetReceive
    \/ NetDrop
    \/ NetDuplicate
    \/ NetReorder

\* data transfer between two open ends over a medium that drops, duplicates
\* and reorders
SpecNet == NetInit /\ [][NetNext]_vars

\* ------------------------------------------------ the server's polling loop
\* remote_address None, as run_server constructs its RDPConnection
NoAddress == "None"

\* what socket.recvfrom can return at B: bytes from A or from a stranger
PeerDatagrams ==
    {[bytes |-> encode(p), addr |-> a] : p \in HandlerPackets, a \in {"A", "X"}}

\* B constructed with no remote address (server.py) or with A's address
\* (client.py gives the peer's address to the constructor)
PeerInit ==
    /\ \E remote_address \in {NoAddress, "A"} :
            conn = [c \in Conns |->
                     IF c = "B" THEN NewConnection(remote_address, PortOf("B"), None)
                     ELSE NewConnection(Peer(c), PortOf(c), PortOf(Peer(c)))]
    /\ emitted = <<>>
    /\ ret = [op |-> "__init__", val |-> "None", data |-> <<>>]
    /\ chan = [c \in Conns |-> <<>>]
    /\ accepted = [c \in Conns |-> <<>>]
    /\ delivered = [c \in Conns |-> <<>>]
    /\ pkt = Packet(0, 0, 0, 0, <<>>, NoFlags)
    /\ wire = <<>>
    /\ decoded = <<>>

\* B is put in LISTEN by listen(local_port)
PeerListen ==
    \E bind_ok \in BOOLEAN : Call("B", "listen", listen(conn["B"], PortOf("B"), bind_ok))

\* or by a passive open
PeerOpen ==
    \E iss \in 0..MaxISS, local_port \in {None, PortOf("B")}, a \in OpenArgs :
        OpenOf("B", iss, TRUE, local_port, None, a)

\* one turn of the loop: packet = receive_packet(); if packet: process_packet(packet)
PollOf(c, dgram) == Call(c, "poll", poll(conn[c], dgram))
PeerPoll == \E dgram \in PeerDatagrams : PollOf("B", dgram)

PeerReset == ResetConnection("B")

PeerNext ==
    \/ PeerListen
    \/ PeerOpen
    \/ PeerPoll
    \/ PeerReset

SpecPeer == PeerInit /\ [][PeerNext]_vars

\* --------------------------------------------- an open end receiving data
\* inbound packets whose payloads can be told apart, plain or with ACK set
DataPackets ==
    {Packet(PortOf("B"), PortOf("A"), 1, 0, data, f) :
        data \in Payloads, f \in {NoFlags, [NoFlags EXCEPT !.ack = 1]}}

DataHandle == \E packet \in DataPackets : HandleDataOf("A", packet)
DataSend == Send("A")
DataReceive == Receive("A")

DataNext ==
    \/ DataHandle
    \/ DataSend
    \/ DataReceive

\* both ends open (as in NetInit); A is handed data packets, sends and receives
SpecData == NetInit /\ [][DataNext]_vars

\* ----------------------------------------------------------------- claims
Counters(self) == <<self.SND_ISS, self.SND_NXT, self.SND_UNA, self.RCV_CUR, self.RCV_MAX>>
ZeroCounters(self) == Counters(self) = <<0, 0, 0, 0, 0>>
Flags(packet) == [syn |-> packet.syn, ack |-> packet.ack, eack |-> packet.eack,
                  rst |-> packet.rst, nul |-> packet.nul]
\* state, the five counters and the reassembly buffer
Protocol(self) == <<self.state, Counters(self), self.data_buffer>>

IsPrefix(a, b) == Len(a) <= Len(b) /\ a = SubSeq(b, 1, Len(a))

\* C1: with B in LISTEN, A opening actively and every emitted packet delivered
\* once and in order through process_packet, both ends reach OPEN with
\* B.RCV_CUR = A.SND_ISS and A.RCV_CUR = B.SND_ISS.  Stated on the runs that
\* have come to rest: A has opened and every datagram has been delivered.
C1_Handshake ==
    (conn["A"].state # "CLOSED" /\ chan["A"] = <<>> /\ chan["B"] = <<>>)
    => /\ conn["A"].state = "OPEN"
       /\ conn["B"].state = "OPEN"
       /\ conn["B"].RCV_CUR = conn["A"].SND_ISS
       /\ conn["A"].RCV_CUR = conn["B"].SND_ISS

C3_RoundTrip == decoded # <<>> => decoded[1] = pkt

\* C4: whenever a connection in OPEN processes an inbound packet whose RST
\* flag is set, whatever its other flags and payload, it ends in CLOSED with
\* SND_ISS, SND_NXT, SND_UNA, RCV_CUR, RCV_MAX all 0 and an empty buffer.
C4_ResetOnRst ==
    [][ret'.op = "process_packet" => \A packet \in InPackets :
        (conn["A"].state = "OPEN" /\ packet.rst = 1 /\ ProcessPacketOf("A", packet))
        => /\ conn'["A"].state = "CLOSED"
           /\ ZeroCounters(conn'["A"])
           /\ conn'["A"].data_buffer = <<>>]_vars

\* the (state, event) pairs of the transition table
Listed(state, packet) ==
    \/ state = "LISTEN" /\ packet.syn = 1 /\ packet.ack = 0
    \/ state = "SYN-SENT" /\ packet.syn = 1 /\ packet.ack = 1
    \/ state = "SYN-RCVD" /\ packet.ack = 1
    \/ state = "OPEN" /\ packet.data # <<>>
    \/ state = "OPEN" /\ packet.rst = 1

\* C5: for every state and inbound packet that is not a listed (state, event)
\* pair, process_packet leaves state, the counters and the reassembly buffer
\* unchanged and emits no packet: a process_packet step either does so, or
\* every packet it can have been called with is listed for the state.
C5_UnhandledIgnored ==
    [][ret'.op = "process_packet" =>
        \/ Protocol(conn'["A"]) = Protocol(conn["A"]) /\ emitted' = <<>>
        \/ \A packet \in InPackets :
              ProcessPacketOf("A", packet) => Listed(conn["A"].state, packet)]_vars

\* a packet has been put through process_packet in CLOSE-WAIT, where no
\* event is listed
C5_Witness ==
    /\ ret.op = "process_packet"
    /\ conn["A"].state = "CLOSE-WAIT"

OneRst(out) == Len(out) = 1 /\ Flags(out[1].packet) = [NoFlags EXCEPT !.rst = 1]

\* C6: close() in OPEN moves to CLOSE-WAIT and emits exactly one RST; in
\* LISTEN, SYN-RCVD or SYN-SENT it moves to CLOSED and emits exactly one RST;
\* in CLOSED or CLOSE-WAIT it fails with the not-open-or-closing error, emits
\* nothing and leaves the state unchanged.
C6_CloseOutcome ==
    [][ret'.op = "close" =>
        /\ conn["A"].state = "OPEN"
           => conn'["A"].state = "CLOSE-WAIT" /\ OneRst(emitted')
        /\ conn["A"].state \in {"LISTEN", "SYN-RCVD", "SYN-SENT"}
           => conn'["A"].state = "CLOSED" /\ OneRst(emitted')
        /\ conn["A"].state \in {"CLOSED", "CLOSE-WAIT"}
           => /\ ret'.val = "Error - connection not open or already closing"
              /\ emitted' = <<>>
              /\ conn'["A"] = conn["A"]]_vars

\* close() has been called in OPEN
C6_Witness ==
    /\ ret.op = "close"
    /\ conn["A"].state = "CLOSE-WAIT"
    /\ OneRst(emitted)

\* C7: after a successful close() the state is CLOSED and SND_ISS, SND_NXT,
\* SND_UNA, RCV_CUR, RCV_MAX are all zero.
C7_CloseReturnsToClosed ==
    [][(ret'.op = "close" /\ ret'.val # "Error - connection not open or already closing")
        => conn'["A"].state = "CLOSED" /\ ZeroCounters(conn'["A"])]_vars

\* C8: send fails with not-open outside OPEN; in OPEN with segment-too-large
\* when len(data) > SND_MAX, otherwise with window-full when
\* SND_NXT >= SND_UNA + SND_MAX; a failed send emits nothing and changes
\* nothing; in every other case send succeeds.
C8_SendFailures ==
    [][ret'.op = "send" => \A data \in Lengths : SendOf("A", data) =>
        LET self == conn["A"]
            fail(err) == ret'.val = err /\ emitted' = <<>> /\ conn'["A"] = self
            tooLarge == self.SND_MAX # None /\ Len(data) > self.SND_MAX
            full == self.SND_MAX # None /\ self.SND_NXT >= self.SND_UNA + self.SND_MAX
        IN  /\ self.state # "OPEN" => fail("Error - connection not open")
            /\ (self.state = "OPEN" /\ tooLarge)
               => fail("Error - data size exceeds maximum segment size")
            /\ (self.state = "OPEN" /\ ~tooLarge /\ full)
               => fail("Error - send window is full, cannot send more data")
            /\ (self.state = "OPEN" /\ ~tooLarge /\ ~full) => ret'.val = "None"]_vars

\* C9: a successful send emits exactly one packet carrying data, with
\* seq_num the SND_NXT of before the call, ack_num = RCV_CUR and no flag set;
\* afterwards SND_NXT has grown by len(data) and nothing else has changed.
C9_SendEffect ==
    [][(ret'.op = "send" /\ ret'.val = "None") => \A data \in Lengths : SendOf("A", data) =>
        LET self == conn["A"]
        IN  /\ self.state = "OPEN"
            /\ Len(emitted') = 1
            /\ emitted'[1].packet.data = data
            /\ emitted'[1].packet.seq_num = self.SND_NXT
            /\ emitted'[1].packet.ack_num = self.RCV_CUR
            /\ Flags(emitted'[1].packet) = NoFlags
            /\ emitted'[1].bytes.data = data
            /\ emitted'[1].bytes.seq_num = self.SND_NXT
            /\ emitted'[1].bytes.control_and_version = ShiftLeft(Version, 12) + HeaderLength
            /\ conn'["A"] = [self EXCEPT !.SND_NXT = self.SND_NXT + Len(data)]]_vars

\* a non-empty payload has been sent
C9_Witness ==
    /\ ret.op = "send"
    /\ ret.val = "None"
    /\ Len(emitted) = 1
    /\ Len(emitted[1].packet.data) = MaxData
    /\ conn["A"].SND_NXT = conn["A"].SND_ISS + 1 + MaxData

\* C10: in every reachable state SND_UNA <= SND_NXT.
C10_UnaLeNxt == conn["A"].SND_UNA <= conn["A"].SND_NXT

\* an open connection that has sent data
C10_Witness ==
    /\ conn["A"].state = "OPEN"
    /\ conn["A"].SND_UNA = MaxISS
    /\ conn["A"].SND_NXT > conn["A"].SND_UNA + 1

\* C11: from CLOSED, open(passive=True, local_port given) moves to LISTEN and
\* emits nothing; open(passive=False, remote_port given) moves to SYN-SENT and
\* emits exactly one packet with only SYN set and seq_num = SND_ISS; in both
\* cases afterwards SND_NXT = SND_ISS + 1, SND_UNA = SND_ISS, and SND_MAX and
\* RMAX_BUF hold the given values, or 10 and 1024 when not given.  Stated in
\* every reachable CLOSED state, of the outcome of open for every argument
\* the Open action draws.
C11_OpenEffect ==
    conn["A"].state = "CLOSED" =>
        \A iss \in 0..MaxISS, passive \in BOOLEAN, local_port \in {None, PortOf("A")},
           remote_port \in {None, PortOf("B")}, a \in OpenArgs :
            (IF passive THEN local_port # None ELSE remote_port # None)
            => LET r == open(conn["A"], iss, passive, local_port, remote_port,
                             a.snd_max, a.rmax_buf)
                   after == r.self
               IN  /\ passive => after.state = "LISTEN" /\ r.out = <<>>
                   /\ ~passive =>
                        /\ after.state = "SYN-SENT"
                        /\ Len(r.out) = 1
                        /\ Flags(r.out[1].packet) = [NoFlags EXCEPT !.syn = 1]
                        /\ r.out[1].packet.seq_num = after.SND_ISS
                        /\ r.out[1].bytes.seq_num = after.SND_ISS
                   /\ after.SND_ISS = iss
                   /\ after.SND_NXT = after.SND_ISS + 1
                   /\ after.SND_UNA = after.SND_ISS
                   /\ after.SND_MAX = (IF a.snd_max = None THEN 10 ELSE a.snd_max)
                   /\ after.RMAX_BUF = (IF a.rmax_buf = None THEN 1024 ELSE a.rmax_buf)

\* an active open without snd_max and rmax_buf has just succeeded
C11_Witness ==
    /\ ret.op = "open"
    /\ conn["A"].state = "SYN-SENT"
    /\ Len(emitted) = 1
    /\ emitted[1].packet.syn = 1
    /\ conn["A"].SND_MAX = DefaultSndMax
    /\ conn["A"].RMAX_BUF = DefaultRmaxBuf

\* C12: receive fails with the not-open error in every state other than OPEN;
\* in OPEN with no inbound packet available it returns a no-data result and
\* changes nothing; in OPEN with a packet available it puts the packet through
\* process_packet and, if the reassembly buffer is then non-empty, returns
\* exactly the buffer's bytes and leaves the buffer empty, otherwise returns a
\* no-data result.
C12_ReceiveBehaviour ==
    [][ret'.op = "receive" => \A dgram \in InDatagrams : ReceiveOf("A", dgram) =>
        LET self == conn["A"]
            available == receive_packet(self, dgram) # <<>>
            nothing == emitted' = <<>> /\ conn'["A"] = self /\ ret'.data = <<>>
        IN  /\ self.state # "OPEN" => ret'.val = "Error - connection not open" /\ nothing
            /\ (self.state = "OPEN" /\ ~available) => ret'.val = "No data to receive" /\ nothing
            /\ (self.state = "OPEN" /\ available) =>
                 \/ /\ ret'.val = "data"
                    /\ ret'.data # <<>>
                    /\ ret'.data = self.data_buffer \o dgram.bytes.data
                    /\ conn'["A"].data_buffer = <<>>
                 \/ /\ ret'.val = "No new data received"
                    /\ ret'.data = <<>>
                    /\ conn'["A"].data_buffer = <<>>]_vars

\* C13: a connection in LISTEN accepts a datagram from any source address and
\* records that address as its remote peer; once the peer is known, a received
\* datagram whose source address differs from the recorded peer is discarded:
\* state, counters and buffer unchanged, nothing emitted.
C13_PeerFiltering ==
    [][ret'.op = "poll" => \A dgram \in PeerDatagrams : PollOf("B", dgram) =>
        LET self == conn["B"]
        IN  /\ self.state = "LISTEN" => conn'["B"].remote_address = dgram.addr
            /\ (self.state # "LISTEN" /\ self.remote_address # NoAddress
                 /\ dgram.addr # self.remote_address)
               => /\ Protocol(conn'["B"]) = Protocol(self)
                  /\ emitted' = <<>>
                  /\ ret'.val = "None"]_vars

\* a datagram whose data_length field differs from the number of payload
\* bytes, or whose checksum field differs from the checksum computed over its
\* fields and payload
Corrupt(packet_bytes) ==
    \/ packet_bytes.data_length # Len(packet_bytes.data)
    \/ packet_bytes.checksum # compute_checksum(packet_bytes)

\* C14: a received datagram that is malformed or whose checksum does not match
\* is treated as no packet: receive returns the no-packet result and no error,
\* state, counters and the reassembly buffer are unchanged and nothing is
\* emitted.
C14_CorruptDropped ==
    [][ret'.op = "receive" => \A dgram \in CorruptDatagrams :
        (conn["A"].state = "OPEN" /\ Corrupt(dgram.bytes) /\ ReceiveOf("A", dgram))
        => /\ ret'.val = "No data to receive"
           /\ Protocol(conn'["A"]) = Protocol(conn["A"])
           /\ emitted' = <<>>]_vars

\* the big-endian 16-bit words of a payload padded with one trailing zero byte
\* when its length is odd, summed
RECURSIVE SumPaddedWords(_)
SumPaddedWords(data) ==
    IF Len(data) = 0 THEN 0
    ELSE IF Len(data) = 1 THEN data[1] * 256
    ELSE data[1] * 256 + data[2] + SumPaddedWords(SubSeq(data, 3, Len(data)))

\* carries out of bit 16 folded back until none remains
RECURSIVE FoldCarries(_)
FoldCarries(sum) == IF sum < 65536 THEN sum ELSE FoldCarries((sum \div 65536) + (sum % 65536))

\* C15: compute_checksum returns the 16-bit complement of the fully
\* carry-folded sum of the big-endian 16-bit words of source_port, dest_port,
\* data_length, seq_num, ack_num and of the payload padded with one trailing
\* zero byte when its length is odd.
C15_Checksum ==
    wire # <<>> =>
        wire[1].checksum =
            65535 - FoldCarries(pkt.source_port + pkt.dest_port + Len(pkt.data)
                                + (pkt.seq_num \div 65536) + (pkt.seq_num % 65536)
                                + (pkt.ack_num \div 65536) + (pkt.ack_num % 65536)
                                + SumPaddedWords(pkt.data))

\* for payloads of even length compute_checksum is that complement
ChecksumOfEvenPayloads == (wire # <<>> /\ Len(pkt.data) % 2 = 0) => C15_Checksum

\* C16: listen(local_port) moves the state to LISTEN only when the current
\* state is CLOSED; called in any other state it leaves the state unchanged;
\* when binding fails it returns the bind error and leaves the state
\* unchanged.
C16_ListenClosedOnly ==
    [][ret'.op = "listen" => \A bind_ok \in BOOLEAN : ListenOf("A", bind_ok) =>
        /\ (conn["A"].state = "CLOSED" /\ bind_ok) => conn'["A"].state = "LISTEN"
        /\ conn["A"].state # "CLOSED" => conn'["A"].state = conn["A"].state
        /\ ~bind_ok => /\ ret'.val = "Error binding to port"
                       /\ conn'["A"].state = conn["A"].state]_vars

\* the attributes a failed open must leave alone
OpenState(self) ==
    <<self.state, self.SND_ISS, self.SND_NXT, self.SND_UNA, self.SND_MAX, self.RMAX_BUF>>

\* C17: an open() call that fails, because the state is not CLOSED, or a
\* passive open has no local port, or an active open has no remote port, emits
\* no packet and leaves state, SND_ISS, SND_NXT, SND_UNA, SND_MAX and RMAX_BUF
\* as they were before the call.
C17_FailedOpenAtomic ==
    [][ret'.op = "open" =>
        \A iss \in 0..MaxISS, passive \in BOOLEAN, local_port \in {None, PortOf("A")},
           remote_port \in {None, PortOf("B")}, a \in OpenArgs :
            (/\ \/ conn["A"].state # "CLOSED"
                \/ passive /\ local_port = None
                \/ ~passive /\ remote_port = None
             /\ OpenOf("A", iss, passive, local_port, remote_port, a))
            => /\ emitted' = <<>>
               /\ OpenState(conn'["A"]) = OpenState(conn["A"])]_vars

WindowFull(self) == self.SND_MAX # None /\ self.SND_NXT >= self.SND_UNA + self.SND_MAX

\* a step that opens from CLOSED, or resets the connection
OpensOrResets ==
    \/ ret'.op = "open" /\ conn["A"].state = "CLOSED"
    \/ /\ ret'.op \in {"reset_connection", "handle_rst_packet"}
       /\ conn'["A"] = reset_connection(conn["A"])

\* C19: no operation and no inbound packet of any kind, ACKs received in OPEN
\* included, changes SND_UNA between an open and the next reset; SND_UNA stays
\* equal to SND_ISS; and once the window is full it stays full, so every later
\* send fails, until the connection is reset or opened again.
C19_UnaNeverAdvances ==
    [][/\ conn'["A"].SND_UNA = conn'["A"].SND_ISS
       /\ ~OpensOrResets =>
            /\ conn'["A"].SND_UNA = conn["A"].SND_UNA
            /\ WindowFull(conn["A"]) => WindowFull(conn'["A"])
            /\ (WindowFull(conn["A"]) /\ ret'.op = "send") =>
                 /\ ret'.val \in {"Error - connection not open",
                                  "Error - data size exceeds maximum segment size",
                                  "Error - send window is full, cannot send more data"}
                 /\ emitted' = <<>>]_vars

\* a send has failed on a window that earlier sends had filled
C19_Witness ==
    /\ ret.op = "send"
    /\ ret.val = "Error - send window is full, cannot send more data"
    /\ conn["A"].state = "OPEN"
    /\ conn["A"].SND_NXT > conn["A"].SND_ISS + 1
    /\ conn["A"].SND_UNA = conn["A"].SND_ISS

\* C20: in every reachable state after a successful open,
\* SND_NXT <= SND_UNA + SND_MAX.
C20_WindowBound ==
    conn["A"].SND_MAX # None => conn["A"].SND_NXT <= conn["A"].SND_UNA + conn["A"].SND_MAX

\* C21: in every reachable state the length of the reassembly buffer is at
\* most RMAX_BUF, whatever inbound data packets have been processed since the
\* last receive.
C21_BufferBound ==
    conn["A"].RMAX_BUF # None => Len(conn["A"].data_buffer) <= conn["A"].RMAX_BUF

FlagNames == {"syn", "ack", "eack", "rst", "nul"}

\* C22: for every combination of SYN, ACK, EACK, RST, NUL the control word
\* encode produces has version subfield (bits 12..15) 1 and header-length
\* subfield (bits 0..7) equal to the header length, and a packet that differs
\* in any one flag produces a different control word.
C22_ControlWord ==
    wire # <<>> =>
        /\ ShiftRight(wire[1].control_and_version, 12) = 1
        /\ Low8(wire[1].control_and_version) = HeaderLength
        /\ \A n \in FlagNames :
              encode([pkt EXCEPT ![n] = 1 - @]).control_and_version
                  # wire[1].control_and_version

\* C23: every packet is emitted as the direct effect of one operation call,
\* and a call emits at most one packet: the datagrams in flight towards B grow
\* only by the one datagram a send of A has just emitted, or by the medium
\* copying a datagram already in flight; and bytes reach B's caller only out of
\* a datagram B's receive has taken from the medium, so the payload of a
\* datagram the medium dropped is never delivered.
C23_NoResend ==
    [][/\ Len(emitted') <= 1
       /\ Len(chan'["B"]) > Len(chan["B"]) =>
            \/ /\ ret'.op = "send"
               /\ ret'.val = "None"
               /\ emitted' # <<>>
               /\ chan'["B"] = Append(chan["B"], [bytes |-> emitted'[1].bytes, addr |-> "A"])
            \/ /\ UNCHANGED <<conn, emitted, ret>>
               /\ \E i \in 1..Len(chan["B"]) : chan'["B"] = Append(chan["B"], chan["B"][i])
       /\ delivered'["B"] # delivered["B"] =>
            /\ chan["B"] # <<>>
            /\ chan'["B"] = Tail(chan["B"])
            /\ delivered'["B"] = delivered["B"] \o conn["B"].data_buffer
                                  \o Head(chan["B"]).bytes.data]_vars

\* the only datagram carrying the payload of a successful send has been
\* dropped by the medium
C23_Witness ==
    /\ ret.op = "send"
    /\ ret.val = "None"
    /\ Len(accepted["A"]) = MaxData
    /\ chan["B"] = <<>>
    /\ delivered["B"] = <<>>

====
